---- MODULE Spec2Model ----
(***************************************************************************)
(* Model of the early-bird news pipeline: the RSS entries collected by a   *)
(* run, the Deduplicator with its file-backed cache of seen fingerprints,  *)
(* and the position of run_pipeline between its stages.                    *)
(*                                                                         *)
(* Strings are sequences of one-character strings, so that lower(),        *)
(* strip(), concatenation and the similarity ratio are computed as the     *)
(* code computes them.  Time is an integer number of ticks, TicksPerDay    *)
(* ticks to a day; one call of _save_cache takes less than a day.          *)
(***************************************************************************)
EXTENDS Integers, Sequences, FiniteSets, TLC

\* ------------------------------------------------------------------ bounds
MaxFeed == 3            \* longest list of feed entries one run collects
MaxRuns == 2            \* pipeline runs in one behaviour
MaxPublish == 1         \* feed changes between runs in one behaviour
MaxInitEntries == 2     \* entries of the cache file the first run finds
MaxLookbackDays == 1    \* deduplication.lookback_days ranges over 1..this
TicksPerDay == 2        \* clock ticks in one day
ClockSpan == 2          \* ticks the clock may advance in one behaviour

StartClock == MaxLookbackDays * TicksPerDay + 1
MaxClock == StartClock + ClockSpan

\* similarity_threshold values, in hundredths (0.80 and 0.85)
Thresholds == {80, 85}

\* ----------------------------------------------------------------- strings
Lower(c) ==
    CASE c = "A" -> "a"
      [] c = "B" -> "b"
      [] c = "C" -> "c"
      [] c = "I" -> "i"
      [] c = "M" -> "m"
      [] c = "T" -> "t"
      [] c = "W" -> "w"
      [] c = "X" -> "x"
      [] OTHER -> c

\* str.lower()
lower(s) == [i \in 1..Len(s) |-> Lower(s[i])]

IsSpace(c) == c = " "

RECURSIVE lstrip(_)
lstrip(s) ==
    IF s = <<>> THEN <<>>
    ELSE IF IsSpace(Head(s)) THEN lstrip(Tail(s)) ELSE s

RECURSIVE rstrip(_)
rstrip(s) ==
    IF s = <<>> THEN <<>>
    ELSE IF IsSpace(s[Len(s)]) THEN rstrip(SubSeq(s, 1, Len(s) - 1)) ELSE s

\* str.strip()
strip(s) == rstrip(lstrip(s))

\* longest common subsequence of two strings
RECURSIVE LCS(_, _)
LCS(s, t) ==
    IF s = <<>> \/ t = <<>> THEN 0
    ELSE IF Head(s) = Head(t) THEN 1 + LCS(Tail(s), Tail(t))
    ELSE LET a == LCS(Tail(s), t)
             b == LCS(s, Tail(t))
         IN IF a >= b THEN a ELSE b

\* Levenshtein.ratio(t1, t2) >= threshold, with the threshold in hundredths:
\* ratio is 1 - indel_distance / (len1 + len2) = 2 * LCS / (len1 + len2),
\* and 1.0 for two empty strings.
ratio_at_least(t1, t2, threshold) ==
    IF Len(t1) + Len(t2) = 0 THEN 100 >= threshold
    ELSE 2 * LCS(t1, t2) * 100 >= threshold * (Len(t1) + Len(t2))

\* ---------------------------------------------------------------- articles
T_Ab == <<"A", "b", " ">>
T_abc == <<"a", "b", "c">>
T_bc == <<"b", "c">>
U1 == <<"h", "1">>
U2 == <<"h", "2">>

\* the feed entries the model draws from: (title, link)
Entries ==
    { [title |-> T_Ab, link |-> U1],
      [title |-> T_abc, link |-> U2],
      [title |-> T_bc, link |-> U2] }

\* Article.generate_hash: md5 of normalised title followed by the URL
\* (md5 is modelled as injective: the digest is the hashed content)
generate_hash(title, url) == strip(lower(title)) \o url

\* Article(title=..., url=...) with no hash given: model_post_init fills it
NewArticle(title, url) ==
    [title |-> title, url |-> url, hash |-> generate_hash(title, url)]

\* RSSCollector._parse_entry: None for a missing title or link
NoArticle == [title |-> <<>>, url |-> <<>>, hash |-> <<>>]

parse_entry(entry) ==
    LET title == strip(entry.title)
        url == strip(entry.link)
    IN IF title = <<>> THEN NoArticle
       ELSE IF url = <<>> THEN NoArticle
       ELSE NewArticle(title, url)

\* RSSCollector.collect_all over the entries the feeds serve
RECURSIVE collect_all(_)
collect_all(entries) ==
    IF entries = <<>> THEN <<>>
    ELSE LET a == parse_entry(Head(entries))
         IN IF a = NoArticle THEN collect_all(Tail(entries))
            ELSE <<a>> \o collect_all(Tail(entries))

Hashes == { parse_entry(e).hash : e \in Entries }

\* --------------------------------------------------------------- the cache
\* datetime.isoformat() and datetime.fromisoformat()
isoformat(t) == <<"T", t>>
BadStamp == <<"?">>
CanParse(s) == Len(s) = 2 /\ s[1] = "T"
fromisoformat(s) == s[2]

EmptyDict == [h \in {} |-> BadStamp]

FileMissing == [kind |-> "missing", data |-> EmptyDict]
FileInvalid == [kind |-> "invalid", data |-> EmptyDict]
FileNonDict == [kind |-> "nondict", data |-> EmptyDict]
FileDict(d) == [kind |-> "dict", data |-> d]

\* timedelta(days=lookback_days)
timedelta(days) == days * TicksPerDay

\* ------------------------------------------------------------- Deduplicator
\* the exception the body of _load_cache's try block raises
\* ("none": the body completes)
load_raises(file) ==
    CASE file.kind = "invalid" -> "JSONDecodeError"
      [] file.kind = "nondict" -> "AttributeError"
      [] OTHER -> "none"

\* variant: only the JSONDecodeError clause
load_handles_json_only(e) == e = "JSONDecodeError"

\* the except clauses of _load_cache: JSONDecodeError, then Exception
load_handles(e) == e = "JSONDecodeError" \/ e # "none"

\* variant: an entry exactly at the cutoff is dropped
load_keeps_strict(timestamp_str, cutoff_date) ==
    /\ CanParse(timestamp_str)
    /\ fromisoformat(timestamp_str) > cutoff_date

\* the entries _load_cache keeps: parseable and not older than the cutoff
load_keeps(timestamp_str, cutoff_date) ==
    /\ CanParse(timestamp_str)
    /\ fromisoformat(timestamp_str) >= cutoff_date

\* Deduplicator._load_cache at time now
load_cache(file, now, lookback_days) ==
    LET cutoff_date == now - timedelta(lookback_days)
        e == load_raises(file)
        opened == file.kind # "missing"
    IN [ seen_hashes |->
             IF file.kind = "dict"
             THEN { h \in DOMAIN file.data : load_keeps(file.data[h], cutoff_date) }
             ELSE {},
         io |-> IF opened THEN <<"read">> ELSE <<>>,
         exc |-> IF e = "none" \/ load_handles(e) THEN "none" ELSE e ]

\* variant: similarity strictly above the threshold
is_similar_strict(title1, title2, similarity_threshold) ==
    LET t1 == strip(lower(title1))
        t2 == strip(lower(title2))
    IN IF Len(t1) + Len(t2) = 0 THEN 100 > similarity_threshold
       ELSE 2 * LCS(t1, t2) * 100 > similarity_threshold * (Len(t1) + Len(t2))

\* variant: titles count as similar from 20 points below the threshold
is_similar_loose(title1, title2, similarity_threshold) ==
    LET t1 == strip(lower(title1))
        t2 == strip(lower(title2))
    IN ratio_at_least(t1, t2, similarity_threshold - 20)

\* Deduplicator._is_similar
is_similar(title1, title2, similarity_threshold) ==
    LET t1 == strip(lower(title1))
        t2 == strip(lower(title2))
    IN ratio_at_least(t1, t2, similarity_threshold)

\* the near-duplicate scan of deduplicate over seen_titles
is_near_duplicate(title, seen_titles, similarity_threshold) ==
    \E i \in 1..Len(seen_titles) :
        is_similar(title, seen_titles[i], similarity_threshold)

\* variant: the accepted article's hash is not remembered
accept_forgets_hash(st, article) ==
    [ unique_articles |-> Append(st.unique_articles, article),
      current_hashes |-> st.current_hashes,
      seen_titles |-> Append(st.seen_titles, article.title),
      verdict |-> Append(st.verdict, "accepted") ]

\* variant: the accepted article is put in front of the result
accept_prepends(st, article) ==
    [ unique_articles |-> <<article>> \o st.unique_articles,
      current_hashes |-> st.current_hashes \cup {article.hash},
      seen_titles |-> Append(st.seen_titles, article.title),
      verdict |-> Append(st.verdict, "accepted") ]

\* what deduplicate's loop does with an accepted article
accept(st, article) ==
    [ unique_articles |-> Append(st.unique_articles, article),
      current_hashes |-> st.current_hashes \cup {article.hash},
      seen_titles |-> Append(st.seen_titles, article.title),
      verdict |-> Append(st.verdict, "accepted") ]

\* the loop of deduplicate; verdict records, per input article, the branch
\* taken (the two debug log lines, or acceptance)
RECURSIVE dedup_loop(_, _, _, _)
dedup_loop(todo, seen_hashes, similarity_threshold, st) ==
    IF todo = <<>> THEN st
    ELSE LET article == Head(todo)
             next ==
                 IF article.hash \in seen_hashes \/ article.hash \in st.current_hashes
                 THEN [st EXCEPT !.verdict = Append(@, "exact")]
                 ELSE IF is_near_duplicate(article.title, st.seen_titles,
                                           similarity_threshold)
                 THEN [st EXCEPT !.verdict = Append(@, "near")]
                 ELSE accept(st, article)
         IN dedup_loop(Tail(todo), seen_hashes, similarity_threshold, next)

LoopStart ==
    [ unique_articles |-> <<>>, current_hashes |-> {},
      seen_titles |-> <<>>, verdict |-> <<>> ]

\* variant: the entries already in the file are not carried over
add_entries_only_new(cache_data, arts, now) ==
    [ h \in { arts[i].hash : i \in 1..Len(arts) } |-> isoformat(now) ]

\* cache_data[article.hash] = now for every article
add_entries(cache_data, arts, now) ==
    LET new == { arts[i].hash : i \in 1..Len(arts) }
    IN [ h \in DOMAIN cache_data \cup new |->
            IF h \in new THEN isoformat(now) ELSE cache_data[h] ]

\* the entries _save_cache keeps
save_keeps(timestamp, cutoff_date) == fromisoformat(timestamp) >= cutoff_date

\* variant: _save_cache starts from an empty mapping without reading the file
save_cache_no_reread(file, arts, now1, now2, lookback_days, writable) ==
    LET merged == [ h \in { arts[i].hash : i \in 1..Len(arts) } |-> isoformat(now1) ]
        cutoff_date == now2 - timedelta(lookback_days)
        kept == { h \in DOMAIN merged : fromisoformat(merged[h]) >= cutoff_date }
    IN [ file |-> IF writable THEN FileDict([ h \in kept |-> merged[h] ]) ELSE file,
         io |-> IF writable THEN <<"write">> ELSE <<>>,
         ok |-> writable ]

\* Deduplicator._save_cache: now1 and now2 are its two readings of the
\* clock, writable tells whether the file can be opened for writing
save_cache(file, arts, now1, now2, lookback_days, writable) ==
    LET exists == file.kind # "missing"
        \* json.load of the existing file; the bare except gives {}
        loaded_dict == file.kind = "dict"
        is_dict == file.kind # "nondict"
        cache_data == IF loaded_dict THEN file.data ELSE EmptyDict
        merged == add_entries(cache_data, arts, now1)
        cutoff_date == now2 - timedelta(lookback_days)
        all_parse == \A h \in DOMAIN merged : CanParse(merged[h])
        kept == { h \in DOMAIN merged : save_keeps(merged[h], cutoff_date) }
        pruned == [ h \in kept |-> merged[h] ]
        exc == IF ~is_dict /\ arts # <<>> THEN "TypeError"
               ELSE IF ~is_dict THEN "AttributeError"
               ELSE IF ~all_parse THEN "ValueError"
               ELSE IF ~writable THEN "OSError"
               ELSE "none"
    IN [ file |-> IF exc = "none" THEN FileDict(pruned) ELSE file,
         io |-> (IF exists THEN <<"read">> ELSE <<>>)
                \o (IF exc = "none" THEN <<"write">> ELSE <<>>),
         ok |-> exc = "none" ]

\* variant: settings.deduplication_enabled is not consulted
deduplicate_always(arts, seen, config, file, now1, now2, writable) ==
    LET st == dedup_loop(arts, seen, config.similarity_threshold, LoopStart)
        r == save_cache(file, st.unique_articles, now1, now2,
                        config.lookback_days, writable)
    IN [ unique_articles |-> st.unique_articles, verdict |-> st.verdict,
         file |-> r.file, io |-> r.io, saved |-> r.ok ]

\* variant: a failed _save_cache costs the batch its result
deduplicate_save_fatal(arts, seen, config, file, now1, now2, writable) ==
    IF ~config.enabled
    THEN [ unique_articles |-> arts, verdict |-> <<>>, file |-> file,
           io |-> <<>>, saved |-> FALSE ]
    ELSE LET st == dedup_loop(arts, seen, config.similarity_threshold, LoopStart)
             r == save_cache(file, st.unique_articles, now1, now2,
                             config.lookback_days, writable)
         IN [ unique_articles |-> IF r.ok THEN st.unique_articles ELSE <<>>,
              verdict |-> st.verdict,
              file |-> r.file, io |-> r.io, saved |-> r.ok ]

\* Deduplicator.deduplicate: the articles returned, the verdicts logged, the
\* cache file afterwards and the accesses made to it
deduplicate(arts, seen, config, file, now1, now2, writable) ==
    IF ~config.enabled
    THEN [ unique_articles |-> arts, verdict |-> <<>>, file |-> file,
           io |-> <<>>, saved |-> FALSE ]
    ELSE LET st == dedup_loop(arts, seen, config.similarity_threshold, LoopStart)
             r == save_cache(file, st.unique_articles, now1, now2,
                             config.lookback_days, writable)
         IN [ unique_articles |-> st.unique_articles, verdict |-> st.verdict,
              file |-> r.file, io |-> r.io, saved |-> r.ok ]

\* ------------------------------------------------------------ state machine
VARIABLES
    cfg,              \* settings: enabled, similarity_threshold, lookback_days
    cacheFile,        \* content of cache/seen_articles.json
    clock,            \* datetime.now()
    feed,             \* the entries the RSS feeds serve, newest first
    pc,               \* position of run_pipeline
    articles,         \* run_pipeline: the collected articles
    seen_hashes,      \* Deduplicator.seen_hashes
    unique_articles,  \* run_pipeline: the result of deduplicate
    verdict,          \* per collected article, the branch deduplicate took
    ioLog,            \* reads and writes of the cache file in this run
    exc,              \* the exception run_pipeline re-raised, or "none"
    runs,             \* pipeline runs started
    published,        \* feed changes so far
    load,             \* ghost: cache file and cutoff of this run's _load_cache
    save,             \* ghost: this run's _save_cache (file before, times)
    prev,             \* ghost: batch, result and save of the previous run
    lastSeen,         \* ghost: per fingerprint, time of the last run that
                      \*        collected an article with it (-1: none)
    call,             \* a function applied on its own: its name and arguments
    ret               \* what that function returned

vars == << cfg, cacheFile, clock, feed, pc, articles, seen_hashes,
           unique_articles, verdict, ioLog, exc, runs, published,
           load, save, prev, lastSeen, call, ret >>

\* the state of the pipeline
pipeline == << cfg, cacheFile, clock, feed, pc, articles, seen_hashes,
               unique_articles, verdict, ioLog, exc, runs, published,
               load, save, prev, lastSeen >>

NoCall == [op |-> "none"]
NoRet == [op |-> "none"]

RECURSIVE SeqsUpTo(_, _)
SeqsUpTo(S, n) ==
    IF n = 0 THEN { <<>> }
    ELSE LET shorter == SeqsUpTo(S, n - 1)
         IN shorter \cup { Append(q, x) : q \in shorter, x \in S }

\* the timestamps of a cache file found at StartClock under a lookback
\* window of w ticks: just outside the window, at the cutoff, fresh, or not
\* a timestamp
Stamps(w) ==
    { isoformat(StartClock - w - 1), isoformat(StartClock - w),
      isoformat(StartClock), BadStamp }

\* the cache files the first run can find
InitDicts(w) ==
    UNION { [D -> Stamps(w)] :
              D \in { D \in SUBSET Hashes : Cardinality(D) <= MaxInitEntries } }

InitFiles(w) ==
    { FileMissing, FileInvalid, FileNonDict } \cup { FileDict(d) : d \in InitDicts(w) }

NoLoad == [file |-> FileMissing, now |-> 0, done |-> FALSE]
NoSave == [before |-> FileMissing, now1 |-> 0, now2 |-> 0, writable |-> FALSE,
           ok |-> FALSE, done |-> FALSE]
NoPrev == [articles |-> <<>>, saved |-> FALSE, now |-> 0, done |-> FALSE,
           accepted |-> <<>>, writable |-> FALSE, before |-> FileMissing]

Init ==
    /\ cfg \in [ enabled : BOOLEAN,
                 similarity_threshold : Thresholds,
                 lookback_days : 1..MaxLookbackDays ]
    /\ cacheFile \in InitFiles(timedelta(cfg.lookback_days))
    /\ clock = StartClock
    /\ feed \in SeqsUpTo(Entries, MaxFeed)
    /\ pc = "idle"
    /\ articles = <<>>
    /\ seen_hashes = {}
    /\ unique_articles = <<>>
    /\ verdict = <<>>
    /\ ioLog = <<>>
    /\ exc = "none"
    /\ runs = 0
    /\ published = 0
    /\ load = NoLoad
    /\ save = NoSave
    /\ prev = NoPrev
    /\ lastSeen = [h \in Hashes |-> -1]
    /\ call = NoCall
    /\ ret = NoRet

\* time passes between two runs
Tick ==
    /\ pc = "idle"
    /\ clock < MaxClock
    /\ clock' = clock + 1
    /\ UNCHANGED << cfg, cacheFile, feed, pc, articles, seen_hashes,
                    unique_articles, verdict, ioLog, exc, runs, published,
                    load, save, prev, lastSeen, call, ret >>

\* a feed publishes a new entry between two runs; the oldest falls out
Publish ==
    /\ pc = "idle"
    /\ published < MaxPublish
    /\ \E e \in Entries :
          feed' = SubSeq(<<e>> \o feed, 1,
                         IF Len(feed) + 1 > MaxFeed THEN MaxFeed ELSE Len(feed) + 1)
    /\ published' = published + 1
    /\ UNCHANGED << cfg, cacheFile, clock, pc, articles, seen_hashes,
                    unique_articles, verdict, ioLog, exc, runs,
                    load, save, prev, lastSeen, call, ret >>

\* run_pipeline, step 1: collect_all; returns when nothing was collected
Collect ==
    /\ pc = "idle"
    /\ runs < MaxRuns
    /\ runs' = runs + 1
    /\ articles' = collect_all(feed)
    /\ pc' = IF articles' = <<>> THEN "idle" ELSE "collected"
    /\ seen_hashes' = {}
    /\ unique_articles' = <<>>
    /\ verdict' = <<>>
    /\ ioLog' = <<>>
    /\ exc' = "none"
    /\ load' = NoLoad
    /\ save' = NoSave
    /\ lastSeen' = [h \in Hashes |->
                      IF \E i \in 1..Len(articles') : articles'[i].hash = h
                      THEN clock ELSE lastSeen[h]]
    /\ UNCHANGED << cfg, cacheFile, clock, feed, published, prev, call, ret >>

\* run_pipeline, step 2a: Deduplicator() -- __init__ calls _load_cache
Construct ==
    /\ pc = "collected"
    /\ LET r == load_cache(cacheFile, clock, cfg.lookback_days)
       IN /\ seen_hashes' = r.seen_hashes
          /\ ioLog' = ioLog \o r.io
          /\ exc' = r.exc
          /\ pc' = IF r.exc = "none" THEN "constructed" ELSE "idle"
          /\ load' = [file |-> cacheFile, now |-> clock, done |-> TRUE]
    /\ UNCHANGED << cfg, cacheFile, clock, feed, articles, unique_articles,
                    verdict, runs, published, save, prev, lastSeen, call, ret >>

\* run_pipeline, step 2b: deduplicate.  _save_cache reads the clock twice
\* (elapsed ticks between the readings) and may find the file not writable
Deduplicate ==
    /\ pc = "constructed"
    /\ \E elapsed \in 0..(TicksPerDay - 1), writable \in BOOLEAN :
         LET now1 == clock
             now2 == clock + elapsed
             r == deduplicate(articles, seen_hashes, cfg, cacheFile,
                              now1, now2, writable)
         IN /\ now2 <= MaxClock
            /\ unique_articles' = r.unique_articles
            /\ verdict' = r.verdict
            /\ cacheFile' = r.file
            /\ ioLog' = ioLog \o r.io
            /\ clock' = IF cfg.enabled THEN now2 ELSE clock
            /\ save' = IF cfg.enabled
                       THEN [before |-> cacheFile, now1 |-> now1, now2 |-> now2,
                             writable |-> writable, ok |-> r.saved, done |-> TRUE]
                       ELSE NoSave
    /\ pc' = "deduped"
    /\ UNCHANGED << cfg, feed, articles, seen_hashes, exc, runs, published,
                    load, prev, lastSeen, call, ret >>

\* run_pipeline after step 2: returns when nothing is left, otherwise
\* filters, composes and sends; the run ends
AfterDedup ==
    /\ pc = "deduped"
    /\ pc' = "idle"
    /\ prev' = [articles |-> articles, saved |-> save.ok, now |-> save.now1,
                done |-> TRUE, accepted |-> unique_articles,
                writable |-> save.writable, before |-> save.before]
    /\ articles' = <<>>
    /\ seen_hashes' = {}
    /\ unique_articles' = <<>>
    /\ verdict' = <<>>
    /\ ioLog' = <<>>
    /\ load' = NoLoad
    /\ save' = NoSave
    /\ UNCHANGED << cfg, cacheFile, clock, feed, exc, runs, published, lastSeen, call, ret >>

Next ==
    \/ Tick
    \/ Publish
    \/ Collect
    \/ Construct
    \/ Deduplicate
    \/ AfterDedup

Spec == Init /\ [][Next]_vars

\* one pipeline run from any starting cache file, feed and configuration
CollectOnce == runs = 0 /\ Collect

NextOneRun ==
    \/ CollectOnce
    \/ Construct
    \/ Deduplicate
    \/ AfterDedup

SpecOneRun == Init /\ [][NextOneRun]_vars

\* ------------------------------------------------------------------ claims
Deduped == pc = "deduped" /\ cfg.enabled

AcceptedBefore(i) == { j \in 1..(i - 1) : verdict[j] = "accepted" }

\* article i has the fingerprint of a cached entry or of an earlier accepted one
IsExactDuplicate(i) ==
    \/ articles[i].hash \in seen_hashes
    \/ \E j \in AcceptedBefore(i) : articles[j].hash = articles[i].hash

NormTitle(i) == strip(lower(articles[i].title))

\* the ratio of two normalised titles is at least the configured threshold
TitlesSimilar(a, b) ==
    2 * LCS(a, b) * 100 >= cfg.similarity_threshold * (Len(a) + Len(b))

IsNearDuplicate(i) ==
    \E j \in AcceptedBefore(i) : TitlesSimilar(NormTitle(i), NormTitle(j))

\* C2: with deduplication enabled an article is dropped as an exact
\* duplicate exactly when its fingerprint is in the loaded seen-set or is that
\* of an article accepted earlier in the batch; no returned article has a
\* fingerprint of the seen-set and no two returned articles share one
C2_ExactDuplicates ==
    Deduped =>
        /\ Len(verdict) = Len(articles)
        /\ \A i \in 1..Len(articles) :
              (verdict[i] = "exact") <=> IsExactDuplicate(i)
        /\ \A k \in 1..Len(unique_articles) :
              unique_articles[k].hash \notin seen_hashes
        /\ \A k, l \in 1..Len(unique_articles) :
              k # l => unique_articles[k].hash # unique_articles[l].hash

\* an article dropped for a cached fingerprint, one accepted, and one dropped
\* for the fingerprint of the accepted one
C2_Witness ==
    /\ Deduped
    /\ \E i, j, k \in 1..Len(articles) :
          /\ verdict[i] = "exact" /\ articles[i].hash \in seen_hashes
          /\ verdict[j] = "accepted"
          /\ j < k /\ verdict[k] = "exact" /\ articles[k].hash = articles[j].hash

\* the articles of arts whose verdict is "accepted", in input order
RECURSIVE AcceptedOf(_, _)
AcceptedOf(arts, verdicts) ==
    IF arts = <<>> THEN <<>>
    ELSE IF Head(verdicts) = "accepted"
         THEN <<Head(arts)>> \o AcceptedOf(Tail(arts), Tail(verdicts))
         ELSE AcceptedOf(Tail(arts), Tail(verdicts))

RECURSIVE IsSubsequence(_, _)
IsSubsequence(s, t) ==
    IF s = <<>> THEN TRUE
    ELSE IF t = <<>> THEN FALSE
    ELSE IF Head(s) = Head(t) THEN IsSubsequence(Tail(s), Tail(t))
    ELSE IsSubsequence(s, Tail(t))

\* C4: what deduplicate returns is a subsequence of its input, with
\* deduplication enabled or disabled
C4_OrderPreserved ==
    pc = "deduped" => IsSubsequence(unique_articles, articles)

\* two different articles returned and one between or around them dropped
C4_Witness ==
    /\ Deduped
    /\ Len(unique_articles) = 2
    /\ unique_articles[1] # unique_articles[2]
    /\ Len(articles) = 3

Window == timedelta(cfg.lookback_days)

AcceptedHashes == { unique_articles[k].hash : k \in 1..Len(unique_articles) }

\* C1: when the next run deduplicates the batch of the previous run, whose
\* cache write succeeded and is still inside the lookback window, the second
\* deduplicate returns the empty list
C1_IdempotentRerun ==
    ( /\ Deduped
      /\ prev.done /\ prev.saved
      /\ articles = prev.articles
      /\ prev.now >= load.now - Window )
    => unique_articles = <<>>

\* C5 as stated: with deduplication disabled the input is returned unchanged
\* and the cache file is neither read nor written
C5_DisabledNoCacheAccess ==
    (pc = "deduped" /\ ~cfg.enabled) =>
        /\ unique_articles = articles
        /\ ioLog = <<>>
        /\ cacheFile = load.file

\* C5 amended: with deduplication disabled the input is returned unchanged and
\* the cache file is never written; constructing the Deduplicator still reads
\* the file once when it exists
C5_DisabledNoCacheWrite ==
    (pc = "deduped" /\ ~cfg.enabled) =>
        /\ unique_articles = articles
        /\ cacheFile = load.file
        /\ ioLog = IF load.file.kind = "missing" THEN <<>> ELSE <<"read">>

\* deduplication disabled, a batch with a repeated article returned as it is,
\* the existing cache file read by the constructor
C5_Witness ==
    /\ pc = "deduped" /\ ~cfg.enabled
    /\ ioLog = <<"read">>
    /\ \E i, j \in 1..Len(unique_articles) : i # j /\ articles[i] = articles[j]
    /\ load.file.kind = "dict" /\ DOMAIN load.file.data # {}

\* C6: the loaded seen-set is exactly the fingerprints whose stored timestamp
\* t satisfies t >= now - lookback_days (older entries absent, an entry at the
\* cutoff kept), and the prune of _save_cache keeps an entry of the file
\* under the same inclusive comparison
C6_LookbackPruning ==
    /\ (load.done /\ pc \in {"constructed", "deduped"} /\ load.file.kind = "dict") =>
          seen_hashes =
             { h \in DOMAIN load.file.data :
                  /\ CanParse(load.file.data[h])
                  /\ fromisoformat(load.file.data[h]) >= load.now - Window }
    /\ (Deduped /\ save.ok /\ save.before.kind = "dict") =>
          \A h \in DOMAIN save.before.data \ AcceptedHashes :
              (h \in DOMAIN cacheFile.data)
                 <=> (fromisoformat(save.before.data[h]) >= save.now2 - Window)

\* an entry exactly at the cutoff is loaded into the seen-set and survives
\* the save of the same run
C6_Witness ==
    /\ Deduped /\ save.ok
    /\ save.now2 = load.now
    /\ \E h \in seen_hashes :
          /\ load.file.data[h] = isoformat(load.now - Window)
          /\ h \in DOMAIN cacheFile.data

\* C7: after deduplicate with a successful write the cache maps the
\* fingerprint of every accepted article to the time of this run, keeps every
\* earlier entry inside the lookback window with its timestamp, holds no
\* entry older than the window and nothing else; the file is rewritten for
\* every batch, also when no article was accepted
C7_MergeAndPersist ==
    /\ (Deduped /\ save.ok) =>
          LET old == IF save.before.kind = "dict" THEN save.before.data ELSE EmptyDict
              new == cacheFile.data
          IN /\ cacheFile.kind = "dict"
             /\ \A h \in AcceptedHashes :
                   h \in DOMAIN new /\ new[h] = isoformat(save.now1)
             /\ \A h \in DOMAIN old :
                   (CanParse(old[h]) /\ fromisoformat(old[h]) >= save.now2 - Window)
                      => (h \in DOMAIN new /\ new[h] = old[h])
             /\ \A h \in DOMAIN new :
                   /\ fromisoformat(new[h]) >= save.now2 - Window
                   /\ h \in DOMAIN old \cup AcceptedHashes
             /\ ioLog[Len(ioLog)] = "write"
    /\ ( /\ Deduped /\ save.writable
         /\ save.before.kind # "nondict"
         /\ \A h \in DOMAIN save.before.data \ AcceptedHashes :
               CanParse(save.before.data[h]) )
       => save.ok

\* a batch accepted into a cache that holds another entry inside the window
\* and the file rewritten
C7_Witness ==
    /\ Deduped /\ save.ok
    /\ unique_articles # <<>>
    /\ \E h \in DOMAIN save.before.data \ AcceptedHashes : h \in DOMAIN cacheFile.data

\* C8: the persisted timestamp of a fingerprint is the time of the most
\* recent run whose batch held an article with that fingerprint
C8_LastSeenTimestamp ==
    (Deduped /\ save.ok) =>
        \A h \in DOMAIN cacheFile.data :
            lastSeen[h] >= 0 => cacheFile.data[h] = isoformat(lastSeen[h])

\* C9 as stated: an enabled run that finds a cache file and saves it reads
\* the file exactly once and writes it exactly once
C9_ReadOnceWriteOnce ==
    (Deduped /\ save.ok /\ load.file.kind # "missing") =>
        ioLog = <<"read", "write">>

\* C9 amended: an enabled run reads the cache file at most twice -- once in
\* _load_cache at the start of deduplication and once more in _save_cache at
\* its end, each when the file exists -- and writes it at most once, as the
\* last access, when _save_cache does not fail; there is no other access
C9_ReadTwiceWriteOnce ==
    /\ Deduped =>
          ioLog = (IF load.file.kind = "missing" THEN <<>> ELSE <<"read">>)
                  \o (IF save.before.kind = "missing" THEN <<>> ELSE <<"read">>)
                  \o (IF save.ok THEN <<"write">> ELSE <<>>)
    /\ ioLog \in { <<>>, <<"read">>, <<"write">>, <<"read", "read">>,
                   <<"read", "read", "write">> }
    /\ pc \in {"idle", "collected"} => ioLog = <<>>

\* an enabled run over an existing cache file: two reads, then the write
C9_Witness ==
    /\ Deduped
    /\ ioLog = <<"read", "read", "write">>

\* C10: a missing cache file, one that is not JSON and one of the wrong
\* shape raise nothing in the constructor and give an empty seen-set, so
\* the deduplicate that follows drops nothing as previously seen
C10_LoadNeverFatal ==
    /\ exc = "none"
    /\ (load.done /\ load.file.kind \in {"missing", "invalid", "nondict"}) =>
          /\ pc \in {"constructed", "deduped"}
          /\ seen_hashes = {}
          /\ Deduped =>
                /\ verdict[1] = "accepted"
                /\ \A i \in 1..Len(articles) :
                      verdict[i] = "exact" =>
                         \E j \in AcceptedBefore(i) : articles[j].hash = articles[i].hash

\* a cache file of the wrong shape: the run goes on and accepts articles
C10_Witness ==
    /\ Deduped
    /\ load.file.kind = "nondict"
    /\ verdict[1] = "accepted"

\* the articles of arts that are neither in the seen-set nor an exact or
\* near duplicate of one kept before them, after those already kept
RECURSIVE KeepFirst(_, _)
KeepFirst(arts, kept) ==
    IF arts = <<>> THEN kept
    ELSE LET a == Head(arts)
             dup == \/ a.hash \in seen_hashes
                    \/ \E k \in 1..Len(kept) :
                          \/ kept[k].hash = a.hash
                          \/ TitlesSimilar(strip(lower(a.title)),
                                           strip(lower(kept[k].title)))
         IN KeepFirst(Tail(arts), IF dup THEN kept ELSE Append(kept, a))

\* C11: whether _save_cache succeeds or fails (file not writable, existing
\* file of the wrong shape or with an unreadable timestamp), deduplicate
\* raises nothing and returns the list the batch and the seen-set determine
C11_SaveFailureHarmless ==
    /\ pc = "constructed" => exc = "none"
    /\ Deduped =>
          /\ exc = "none"
          /\ save.done
          /\ unique_articles = KeepFirst(articles, <<>>)
          /\ ~save.ok => cacheFile = save.before

\* a save that failed on a file that cannot be written, after a batch of
\* which something was accepted and something dropped
C11_Witness ==
    /\ Deduped
    /\ ~save.ok
    /\ ~save.writable
    /\ save.before.kind \in {"missing", "dict"}
    /\ unique_articles # <<>>
    /\ Len(unique_articles) < Len(articles)

\* ------------------------------------------------- constructing an Article
\* Optional fields that were not supplied
None == <<"None">>

T_ab == <<"a", "b">>
S_Wired == <<"W", "i", "r", "e", "d">>
S_Blog == <<"B", "l", "o", "g">>

\* variant: the title is hashed as written
model_post_init_raw(self) ==
    IF self.hash = <<>>
    THEN [self EXCEPT !.hash = self.title \o self.url]
    ELSE self

\* Article.model_post_init: the hash is generated unless one was supplied
model_post_init(self) ==
    IF self.hash = <<>>
    THEN [self EXCEPT !.hash = generate_hash(self.title, self.url)]
    ELSE self

\* Article(**fields): the fields as supplied (hash defaults to "",
\* relevance_score to 0.0), then model_post_init
Article(fields) == model_post_init(fields)

\* the keyword arguments the model constructs Articles from
ArticleArgs ==
    [ title : {T_Ab, T_ab, T_abc},
      url : {U1, U2},
      description : {None, T_bc},
      source : {S_Wired, S_Blog},
      hash : {<<>>, <<"x">>} ]

\* the pipeline is not running
AtRest ==
    /\ cfg = [enabled |-> TRUE, similarity_threshold |-> 85, lookback_days |-> 1]
    /\ cacheFile = FileMissing
    /\ clock = StartClock
    /\ feed = <<>>
    /\ pc = "idle"
    /\ articles = <<>>
    /\ seen_hashes = {}
    /\ unique_articles = <<>>
    /\ verdict = <<>>
    /\ ioLog = <<>>
    /\ exc = "none"
    /\ runs = 0
    /\ published = 0
    /\ load = NoLoad
    /\ save = NoSave
    /\ prev = NoPrev
    /\ lastSeen = [h \in Hashes |-> -1]

InitArticle ==
    /\ AtRest
    /\ call \in [ op : {"Article"}, a : ArticleArgs, b : ArticleArgs ]
    /\ ret = NoRet

\* two Articles are constructed
ConstructArticles ==
    /\ call.op = "Article"
    /\ ret = NoRet
    /\ ret' = [op |-> "Article", a |-> Article(call.a), b |-> Article(call.b)]
    /\ UNCHANGED << pipeline, call >>

NextArticle == ConstructArticles

SpecArticle == InitArticle /\ [][NextArticle]_vars

Constructed == ret.op = "Article"

SameTitleAndUrl ==
    /\ strip(lower(call.a.title)) = strip(lower(call.b.title))
    /\ call.a.url = call.b.url

IsWordChar(c) == c \notin {" ", "+"}

\* \b at position i of text: exactly one of text[i-1], text[i] is \w
IsWordAt(text, i) == i \in 1..Len(text) /\ IsWordChar(text[i])
WordBoundary(text, i) == IsWordAt(text, i - 1) # IsWordAt(text, i)

\* re.search(r'\b' + re.escape(keyword) + r'\b', text)
re_search(keyword, text) ==
    \E p \in 1..(Len(text) - Len(keyword) + 1) :
        /\ SubSeq(text, p, p + Len(keyword) - 1) = keyword
        /\ WordBoundary(text, p)
        /\ WordBoundary(text, p + Len(keyword))

\* the settings ArticleFilter reads
K_AI == <<"A", "I">>
K_ai == <<"a", "i">>
K_bot == <<"b", "o", "t">>
K_crypto == <<"c", "r", "y", "p", "t", "o">>
K_cpp == <<"c", "+", "+">>

\* ArticleFilter.__init__: the keyword lists, lower-cased
lower_all(keywords) == [i \in 1..Len(keywords) |-> lower(keywords[i])]

\* ArticleFilter._calculate_keyword_score over the lower-cased include list
RECURSIVE calculate_keyword_score(_, _)
calculate_keyword_score(include_keywords, text) ==
    IF text = <<>> THEN 0
    ELSE IF include_keywords = <<>> THEN 0
    ELSE (IF re_search(Head(include_keywords), lower(text)) THEN 1 ELSE 0)
         + calculate_keyword_score(Tail(include_keywords), text)

\* f"{article.title} {article.description or ''}"
title_and_description(article) ==
    article.title \o <<" ">>
        \o (IF article.description = None THEN <<>> ELSE article.description)

\* ArticleFilter._should_exclude over the lower-cased exclude list
should_exclude(exclude_keywords, article) ==
    \E i \in 1..Len(exclude_keywords) :
        re_search(exclude_keywords[i], lower(title_and_description(article)))

\* filter_and_rank, first pass: the articles not excluded, in order
RECURSIVE exclusion_filter(_, _)
exclusion_filter(exclude_keywords, arts) ==
    IF arts = <<>> THEN <<>>
    ELSE IF should_exclude(exclude_keywords, Head(arts))
         THEN exclusion_filter(exclude_keywords, Tail(arts))
         ELSE <<Head(arts)>> \o exclusion_filter(exclude_keywords, Tail(arts))

MaxKeywords == 2

\* the keywords a configuration lists, as written
Keywords == {K_AI, K_ai, K_bot, K_crypto, K_cpp}
KeywordLists == SeqsUpTo(Keywords, MaxKeywords)

X_AIbot == <<"A", "I", " ", "b", "o", "t">>
X_robot == <<"r", "o", "b", "o", "t">>
X_cryptoBot == <<"c", "r", "y", "p", "t", "o", " ", "t", "r", "a", "d", "i", "n", "g", " ", "b", "o", "t">>
X_cryptocurrency == <<"c", "r", "y", "p", "t", "o", "c", "u", "r", "r", "e", "n", "c", "y">>
X_cppAI == <<"C", "+", "+", " ", "A", "I">>
X_newAI == <<"n", "e", "w", " ", "a", "i">>

Titles == {X_AIbot, X_robot, X_cryptoBot, X_cryptocurrency, X_cppAI}
Descriptions == {None, X_newAI, X_cryptoBot}

InitText ==
    /\ AtRest
    /\ call \in [ op : {"keyword_score", "exclusion_filter"},
                  keywords : KeywordLists,
                  title : Titles,
                  description : Descriptions ]
    /\ ret = NoRet

\* ArticleFilter() is built from the settings and scores the title
KeywordScore ==
    /\ call.op = "keyword_score"
    /\ ret = NoRet
    /\ ret' = [op |-> "keyword_score",
               score |-> calculate_keyword_score(lower_all(call.keywords),
                                                 call.title)]
    /\ UNCHANGED << pipeline, call >>

\* ArticleFilter() is built from the settings and filters one article
ExclusionFilter ==
    /\ call.op = "exclusion_filter"
    /\ ret = NoRet
    /\ LET article == [title |-> call.title, description |-> call.description]
       IN ret' = [op |-> "exclusion_filter",
                  kept |-> exclusion_filter(lower_all(call.keywords),
                                            <<article>>)]
    /\ UNCHANGED << pipeline, call >>

NextText ==
    \/ KeywordScore
    \/ ExclusionFilter

SpecText == InitText /\ [][NextText]_vars

\* keyword occurs in text with no word character next to it on either side
WholeWordIn(keyword, text) ==
    \E p \in 1..(Len(text) - Len(keyword) + 1) :
        /\ SubSeq(text, p, p + Len(keyword) - 1) = keyword
        /\ ~IsWordAt(text, p - 1)
        /\ ~IsWordAt(text, p + Len(keyword))

\* the configured keywords, told apart without regard to letter case
DistinctKeywords == { lower(call.keywords[i]) : i \in 1..Len(call.keywords) }

\* C16: the keyword score of a text is the number of distinct configured
\* include-keywords, compared without regard to case, that occur in it as a
\* whole word; one listed twice or in two letter-cases counts once
C16_DistinctKeywordCount ==
    ret.op = "keyword_score" =>
        ret.score = Cardinality({ k \in DistinctKeywords :
                                    WholeWordIn(k, lower(call.title)) })

\* C20: an article is dropped by the exclusion filter exactly when its title
\* and description, joined, contain some configured exclude-keyword as a
\* whole word, compared without regard to case
C20_ExcludeWholeWord ==
    ret.op = "exclusion_filter" =>
        (ret.kept = <<>>) <=>
            \E k \in DistinctKeywords :
               WholeWordIn(k, lower(title_and_description(call)))

\* ------------------------------------------------------ relevance scoring
\* Reputation scores are held in halves, recency multipliers in quarters and
\* relevance scores in eighths, so that every value the code computes for the
\* model's settings is an integer.

\* ArticleFilter.source_reputation, in the order of the dict
source_reputation ==
    << [key |-> <<"m", "i", "t">>, score |-> 4],
       [key |-> <<"i", "e", "e", "e">>, score |-> 4],
       [key |-> <<"a", "r", "x", "i", "v">>, score |-> 3],
       [key |-> <<"o", "p", "e", "n", "a", "i">>, score |-> 3],
       [key |-> <<"d", "e", "e", "p", "m", "i", "n", "d">>, score |-> 3],
       [key |-> <<"g", "o", "o", "g", "l", "e", " ", "a", "i">>, score |-> 3],
       [key |-> <<"w", "i", "r", "e", "d">>, score |-> 2],
       [key |-> <<"t", "e", "c", "h", "c", "r", "u", "n", "c", "h">>, score |-> 2],
       [key |-> <<"v", "e", "n", "t", "u", "r", "e", "b", "e", "a", "t">>, score |-> 2] >>

\* the score of a source no key matches
DefaultReputation == 1

\* key in source_lower
Contains(key, text) ==
    \E p \in 1..(Len(text) - Len(key) + 1) :
        SubSeq(text, p, p + Len(key) - 1) = key

\* ArticleFilter._get_source_reputation_score: the first key contained
RECURSIVE first_match(_, _)
first_match(table, source_lower) ==
    IF table = <<>> THEN DefaultReputation
    ELSE IF Contains(Head(table).key, source_lower) THEN Head(table).score
    ELSE first_match(Tail(table), source_lower)

get_source_reputation_score(source_name) ==
    first_match(source_reputation, lower(source_name))

\* datetime values: naive ones are a wall-clock reading, aware ones carry
\* their offset from UTC; all in ticks
NoDate == [kind |-> "none", wall |-> 0, utcoffset |-> 0]
NaiveTime(wall) == [kind |-> "naive", wall |-> wall, utcoffset |-> 0]
AwareTime(wall, utcoffset) ==
    [kind |-> "aware", wall |-> wall, utcoffset |-> utcoffset]

\* datetime.now() and datetime.now(tz) at the instant now_utc on a machine
\* whose local time is local_utcoffset ahead of UTC
datetime_now(now_utc, local_utcoffset) == NaiveTime(now_utc + local_utcoffset)
datetime_now_tz(now_utc, utcoffset) == AwareTime(now_utc + utcoffset, utcoffset)

\* d.replace(tzinfo=None): the wall-clock reading is kept as it is
replace_tzinfo_none(d) == NaiveTime(d.wall)

\* a - b for two naive or two aware datetimes
minus(a, b) == (a.wall - a.utcoffset) - (b.wall - b.utcoffset)

\* the age _get_recency_boost computes
boost_age(article, now_utc, local_utcoffset) ==
    LET now == IF article.published_at.kind = "aware"
               THEN datetime_now_tz(now_utc, article.published_at.utcoffset)
               ELSE datetime_now(now_utc, local_utcoffset)
    IN minus(now, article.published_at)

\* variant: the partial boost reaches to 24 hours only
get_recency_boost_no_partial(article, recency_weight, now_utc, local_utcoffset) ==
    IF article.published_at.kind = "none" THEN 4
    ELSE LET age == boost_age(article, now_utc, local_utcoffset)
         IN IF age <= TicksPerDay THEN 2 * recency_weight
            ELSE 4

\* ArticleFilter._get_recency_boost, in quarters; recency_weight in halves.
\* age_hours <= 24 is age <= TicksPerDay ticks
get_recency_boost(article, recency_weight, now_utc, local_utcoffset) ==
    IF article.published_at.kind = "none" THEN 4
    ELSE LET age == boost_age(article, now_utc, local_utcoffset)
         IN IF age <= TicksPerDay THEN 2 * recency_weight
            ELSE IF age <= 2 * TicksPerDay THEN 4 + (recency_weight - 2)
            ELSE 4

\* variant: the reputation is added after the recency boost
calculate_relevance_score_late(self, article, now_utc, local_utcoffset) ==
    LET title_score == calculate_keyword_score(self.include_keywords, article.title)
        description_score ==
            calculate_keyword_score(self.include_keywords,
                IF article.description = None THEN <<>> ELSE article.description)
        reputation_score == get_source_reputation_score(article.source)
        recency_boost == get_recency_boost(article, self.recency_weight,
                                           now_utc, local_utcoffset)
    IN (title_score * 6 + description_score * 2) * recency_boost
       + reputation_score * 4

\* ArticleFilter.calculate_relevance_score, in eighths
calculate_relevance_score(self, article, now_utc, local_utcoffset) ==
    LET title_score == calculate_keyword_score(self.include_keywords, article.title)
        description_score ==
            calculate_keyword_score(self.include_keywords,
                IF article.description = None THEN <<>> ELSE article.description)
        reputation_score == get_source_reputation_score(article.source)
        recency_boost == get_recency_boost(article, self.recency_weight,
                                           now_utc, local_utcoffset)
    IN (title_score * 6 + description_score * 2 + reputation_score) * recency_boost

\* ----------------------------------------------------- filter_and_rank
\* filter_and_rank, second pass: the age compared with max_age
filter_age(article, now_utc, local_utcoffset) ==
    minus(datetime_now(now_utc, local_utcoffset),
          replace_tzinfo_none(article.published_at))

\* filter_and_rank, second pass: undated articles and those not older than
\* max_age_days, in order
recency_filter(arts, max_age_days, now_utc, local_utcoffset) ==
    SelectSeq(arts, LAMBDA a :
        \/ a.published_at.kind = "none"
        \/ filter_age(a, now_utc, local_utcoffset) <= timedelta(max_age_days))

\* sorted(..., reverse=True) is stable: an article goes behind every article
\* that scores at least as much and was placed before it
RECURSIVE insert_desc(_, _)
insert_desc(ranked, a) ==
    IF ranked = <<>> THEN <<a>>
    ELSE IF Head(ranked).relevance_score >= a.relevance_score
         THEN <<Head(ranked)>> \o insert_desc(Tail(ranked), a)
         ELSE <<a>> \o ranked

RECURSIVE sorted_desc(_, _)
sorted_desc(arts, ranked) ==
    IF arts = <<>> THEN ranked
    ELSE sorted_desc(Tail(arts), insert_desc(ranked, Head(arts)))

\* seq[:n], for n of either sign
slice_to(seq, n) ==
    LET last == IF n >= 0 THEN (IF n < Len(seq) THEN n ELSE Len(seq))
                ELSE (IF Len(seq) + n > 0 THEN Len(seq) + n ELSE 0)
    IN SubSeq(seq, 1, last)

\* the outcome of filter_and_rank
Returns(filtered, recent_articles, scored_articles, result, exception) ==
    [ filtered |-> filtered, recent_articles |-> recent_articles,
      scored_articles |-> scored_articles, result |-> result,
      exc |-> exception ]

\* ArticleFilter.filter_and_rank.  self holds the filter's fields and the
\* settings it reads; the result carries the list left by each pass, the
\* list returned and the exception raised ("none" when it returns)
filter_and_rank(self, arts, now_utc, local_utcoffset) ==
    LET filtered == exclusion_filter(self.exclude_keywords, arts)
        recent == recency_filter(filtered, self.max_age_days,
                                 now_utc, local_utcoffset)
        recent_articles ==
            [ i \in 1..Len(recent) |->
                [ recent[i] EXCEPT !.relevance_score =
                    calculate_relevance_score(self, recent[i],
                                              now_utc, local_utcoffset) ] ]
        scored_articles ==
            SelectSeq(recent_articles,
                      LAMBDA a : a.relevance_score >= self.min_score)
        ranked_articles == sorted_desc(scored_articles, <<>>)
        top_articles == slice_to(ranked_articles, self.max_articles)
    IN IF filtered = <<>> THEN Returns(<<>>, <<>>, <<>>, <<>>, "none")
       ELSE IF recent = <<>> THEN Returns(filtered, <<>>, <<>>, <<>>, "none")
       ELSE IF scored_articles = <<>>
            THEN Returns(filtered, recent_articles, <<>>, <<>>, "none")
       \* the score range logged reads top_articles[0]
       ELSE IF top_articles = <<>>
            THEN Returns(filtered, recent_articles, scored_articles, <<>>,
                         "IndexError")
       ELSE Returns(filtered, recent_articles, scored_articles,
                    top_articles, "none")

\* ArticleFilter(): the fields __init__ sets, with the two settings the
\* methods read at each call
ArticleFilter(settings) ==
    [ include_keywords |-> lower_all(settings.include_keywords),
      exclude_keywords |-> lower_all(settings.exclude_keywords),
      max_articles |-> settings.max_articles,
      min_score |-> settings.min_relevance_score,
      recency_weight |-> settings.recency_weight,
      max_age_days |-> settings.max_age_days ]

MaxBatch == 3
MaxTop == 2
MaxAgeDays == 3

S_MIT == <<"M", "I", "T">>
S_arXiv == <<"a", "r", "X", "i", "v">>
S_WiredMIT == <<"W", "i", "r", "e", "d", " ", "M", "I", "T">>
Sources == {S_MIT, S_arXiv, S_Wired, S_WiredMIT, S_Blog}

\* the machine's offset from UTC and the offsets feeds stamp their dates with
LocalOffsets == {-1, 0, 1}
ZoneOffsets == {0, 1}

\* filtering.recency_weight -1.0, 1.0, 1.5 and 2.0, in halves (the setting is
\* any float: nothing validates it)
RecencyWeights == {-2, 2, 3, 4}

\* filtering.min_relevance_score 0.0 and 2.0, in eighths
MinScores == {0, 16}

\* ages at and just past each limit the filter compares with
Ages(max_age_days) ==
    { 0, TicksPerDay, TicksPerDay + 1, 2 * TicksPerDay, 2 * TicksPerDay + 1,
      timedelta(max_age_days), timedelta(max_age_days) + 1 }

\* the publish times an article of those ages can carry at the instant
\* now_utc: none, naive local time, or aware in some zone
PublishTimes(now_utc, local_utcoffset, max_age_days) ==
    {NoDate}
    \cup { NaiveTime(now_utc + local_utcoffset - age) : age \in Ages(max_age_days) }
    \cup { AwareTime(now_utc - age + z, z) :
             age \in Ages(max_age_days), z \in ZoneOffsets }

AnArticle(title, description, url, source, published_at) ==
    [ title |-> title, description |-> description, url |-> url,
      source |-> source, published_at |-> published_at, relevance_score |-> 0 ]

\* calls with one article, of every source and publish time
SingleCalls ==
    UNION { UNION {
      [ op : {"filter_and_rank"},
        local_utcoffset : {local},
        settings : [ include_keywords : {<<>>, <<K_AI, K_bot>>},
                     exclude_keywords : {<<>>},
                     max_articles : {1},
                     min_relevance_score : {0},
                     recency_weight : RecencyWeights,
                     max_age_days : {days} ],
        articles : { <<AnArticle(title, description, U1, source, published_at)>> :
                       title \in {X_AIbot, X_robot},
                       description \in {None, X_newAI},
                       source \in Sources,
                       published_at \in PublishTimes(StartClock, local, days) } ]
      : local \in LocalOffsets } : days \in {1, MaxAgeDays} }

\* the articles batches are drawn from: two that tie, a weaker, a weak one,
\* one an exclude-keyword hits and one too old
Pool ==
    { AnArticle(X_AIbot, None, U1, S_MIT, NaiveTime(StartClock)),
      AnArticle(X_AIbot, None, U2, S_MIT, NaiveTime(StartClock)),
      AnArticle(X_AIbot, None, U1, S_Blog, NoDate),
      AnArticle(X_robot, None, U1, S_Blog, NaiveTime(StartClock)),
      AnArticle(X_cryptoBot, None, U1, S_Wired, NaiveTime(StartClock)),
      AnArticle(X_AIbot, None, U1, S_MIT,
                NaiveTime(StartClock - timedelta(1) - 1)) }

BatchCalls ==
    [ op : {"filter_and_rank"},
      local_utcoffset : {0},
      settings : [ include_keywords : {<<K_AI, K_bot>>},
                   exclude_keywords : {<<>>, <<K_crypto>>},
                   max_articles : 0..MaxTop,
                   min_relevance_score : MinScores,
                   recency_weight : {2, 4},
                   max_age_days : {1} ],
      articles : SeqsUpTo(Pool, MaxBatch) ]

InitFilter ==
    /\ AtRest
    /\ call \in SingleCalls \cup BatchCalls
    /\ ret = NoRet

\* ArticleFilter().filter_and_rank(articles) at the instant clock
FilterAndRank ==
    /\ call.op = "filter_and_rank"
    /\ ret = NoRet
    /\ ret' = [ op |-> "filter_and_rank" ]
              @@ filter_and_rank(ArticleFilter(call.settings), call.articles,
                                 clock, call.local_utcoffset)
    /\ UNCHANGED << pipeline, call >>

NextFilter == FilterAndRank

SpecFilter == InitFilter /\ [][NextFilter]_vars

Filtered == ret.op = "filter_and_rank"

\* C13: filter_and_rank raises nothing, whatever the batch and the
\* settings, and returns the empty list when the exclusion filter, the
\* recency filter, the minimum score or the truncation leaves no article
C13_NeverRaises ==
    Filtered =>
        /\ ret.exc = "none"
        /\ ( \/ ret.filtered = <<>>
             \/ ret.recent_articles = <<>>
             \/ ret.scored_articles = <<>>
             \/ call.settings.max_articles = 0 ) => ret.result = <<>>

\* the place of qualifying article i in the stable descending order: behind
\* every higher score and every equal score that came before it
RankOf(q, i) ==
    1 + Cardinality({ j \in 1..Len(q) :
            \/ q[j].relevance_score > q[i].relevance_score
            \/ q[j].relevance_score = q[i].relevance_score /\ j < i })

\* C14: the list returned is the first max_articles of the qualifying
\* articles in stable descending order of score: scores never increase,
\* ties keep the input order, the length is min(max_articles, number
\* qualifying), and no omitted article outscores a returned one
C14_RankAndTruncate ==
    Filtered =>
        LET q == ret.scored_articles
            m == call.settings.max_articles
        IN /\ ret.exc = "none"
           /\ Len(ret.result) = IF m < Len(q) THEN m ELSE Len(q)
           /\ \A i \in 1..Len(q) :
                 RankOf(q, i) <= Len(ret.result) => ret.result[RankOf(q, i)] = q[i]
           /\ \A k \in 1..(Len(ret.result) - 1) :
                 ret.result[k].relevance_score >= ret.result[k + 1].relevance_score
           /\ \A i \in 1..Len(q) :
                 RankOf(q, i) > Len(ret.result) =>
                    \A k \in 1..Len(ret.result) :
                       ret.result[k].relevance_score >= q[i].relevance_score

\* the reputation scores, in halves, the claim allows a source name: that of
\* a table key it contains, or 0.5 when it contains none
ReputationsOf(source_name) ==
    LET hits == { k \in 1..Len(source_reputation) :
                    Contains(source_reputation[k].key, lower(source_name)) }
    IN IF hits = {} THEN {1}
       ELSE { source_reputation[k].score : k \in hits }

\* keyword score of a text under the call's include list
KeywordScoreOf(text) ==
    calculate_keyword_score(lower_all(call.settings.include_keywords),
                            IF text = None THEN <<>> ELSE text)

\* the recency multiplier of an article at this call, in quarters
MultiplierOf(a) ==
    get_recency_boost(a, call.settings.recency_weight, clock,
                      call.local_utcoffset)

\* C15: the relevance_score stored on every article that reaches scoring is
\* (title_score * 3 + description_score * 1 + reputation_score) *
\* recency_multiplier, the reputation being the table score of a key the
\* source name contains, between 0.5 and 2.0, and 0.5 when none matches
C15_ScoreFormula ==
    Filtered =>
        \A i \in 1..Len(ret.recent_articles) :
            LET a == ret.recent_articles[i]
            IN \E reputation \in ReputationsOf(a.source) :
                  /\ reputation \in 1..4
                  /\ a.relevance_score =
                        (KeywordScoreOf(a.title) * 6
                         + KeywordScoreOf(a.description) * 2
                         + reputation) * MultiplierOf(a)

\* an article with keywords in title and description, from a source that
\* contains two table keys, scored under a partial recency boost
C15_Witness ==
    /\ Filtered
    /\ \E i \in 1..Len(ret.recent_articles) :
          LET a == ret.recent_articles[i]
          IN /\ KeywordScoreOf(a.title) = 2
             /\ KeywordScoreOf(a.description) = 1
             /\ a.source = S_WiredMIT
             /\ MultiplierOf(a) = 5
             /\ a.relevance_score = (12 + 2 + 4) * 5

\* how long before the call the article was published, in ticks: between
\* instants for an aware publish time, on the local clock for a naive one
TrueAge(a) ==
    IF a.published_at.kind = "aware"
    THEN clock - (a.published_at.wall - a.published_at.utcoffset)
    ELSE (clock + call.local_utcoffset) - a.published_at.wall

\* the score of an article before the recency multiplier, in halves
BaseOf(a) ==
    KeywordScoreOf(a.title) * 6 + KeywordScoreOf(a.description) * 2
    + get_source_reputation_score(a.source)

\* the multiplier the tiers give, in quarters, for a weight in halves
TierMultiplier(a, recency_weight) ==
    IF a.published_at.kind = "none" THEN 4
    ELSE IF TrueAge(a) <= TicksPerDay THEN 2 * recency_weight
    ELSE IF TrueAge(a) <= 2 * TicksPerDay THEN 4 + (recency_weight - 2)
    ELSE 4

\* C17: an article published at most 24 hours before the call is scored
\* with multiplier recency_weight, one published more than 24 and at most 48
\* hours before with 1.0 + (recency_weight - 1.0) * 0.5, an older or undated
\* one with 1.0
C17_RecencyTiers ==
    Filtered =>
        \A i \in 1..Len(ret.recent_articles) :
            LET a == ret.recent_articles[i]
            IN /\ BaseOf(a) > 0
               /\ a.relevance_score =
                     BaseOf(a) * TierMultiplier(a, call.settings.recency_weight)

\* an article stamped in another zone than the machine's, between 24 and 48
\* hours old, scored with half the boost of weight 2.0
C17_Witness ==
    /\ Filtered
    /\ call.settings.recency_weight = 4
    /\ \E i \in 1..Len(ret.recent_articles) :
          LET a == ret.recent_articles[i]
          IN /\ a.published_at.kind = "aware"
             /\ a.published_at.utcoffset # call.local_utcoffset
             /\ TrueAge(a) > TicksPerDay
             /\ TrueAge(a) <= 2 * TicksPerDay
             /\ a.relevance_score = BaseOf(a) * 6

\* the articles as they were before scoring
Unscored(arts) ==
    [ i \in 1..Len(arts) |-> [ arts[i] EXCEPT !.relevance_score = 0 ] ]

\* C19: of the articles that pass the exclusion filter, the recency filter
\* drops exactly those published more than max_age_days before the call
\* (one exactly that old is kept) and keeps the undated ones, for naive and
\* aware publish times alike, and it measures the age the recency
\* multiplier measures
C19_RecencyFilter ==
    Filtered =>
        /\ Unscored(ret.recent_articles) =
              SelectSeq(ret.filtered, LAMBDA a :
                  \/ a.published_at.kind = "none"
                  \/ TrueAge(a) <= timedelta(call.settings.max_age_days))
        /\ \A i \in 1..Len(ret.filtered) :
              ret.filtered[i].published_at.kind # "none" =>
                 filter_age(ret.filtered[i], clock, call.local_utcoffset)
                    = boost_age(ret.filtered[i], clock, call.local_utcoffset)

\* ------------------------------------------- collecting, then scoring
\* a date field whose text dateutil cannot parse
Garbage == [kind |-> "garbage", wall |-> 0, utcoffset |-> 0]

\* _parse_entry, the publish date: the first of the entry's date fields
\* that parses, else the time of collection
RECURSIVE parse_published(_, _, _)
parse_published(dates, now_utc, local_utcoffset) ==
    IF dates = <<>> THEN datetime_now(now_utc, local_utcoffset)
    ELSE IF Head(dates) # Garbage THEN Head(dates)
    ELSE parse_published(Tail(dates), now_utc, local_utcoffset)

\* RSSCollector._parse_entry with the fields the filter reads
parse_entry_dated(entry, source_name, now_utc, local_utcoffset) ==
    LET a == parse_entry(entry)
    IN IF a = NoArticle THEN NoArticle
       ELSE [ title |-> a.title, url |-> a.url, hash |-> a.hash,
              description |-> None, source |-> source_name,
              published_at |-> parse_published(entry.dates, now_utc,
                                               local_utcoffset),
              relevance_score |-> 0 ]

MaxDateFields == 2

\* what an entry's date fields can hold at the instant now_utc
DateTexts(now_utc, local_utcoffset) ==
    {Garbage}
    \cup { NaiveTime(now_utc + local_utcoffset - age) :
             age \in {0, TicksPerDay + 1, 2 * TicksPerDay + 1} }
    \cup { AwareTime(now_utc - age + z, z) :
             age \in {0, TicksPerDay + 1, 2 * TicksPerDay + 1},
             z \in ZoneOffsets }

InitCollectScore ==
    /\ AtRest
    /\ \E local \in LocalOffsets :
          call \in [ op : {"collect_and_score"},
                     local_utcoffset : {local},
                     recency_weight : RecencyWeights,
                     entry : { [title |-> e.title, link |-> e.link, dates |-> d] :
                                 e \in Entries,
                                 d \in SeqsUpTo(DateTexts(StartClock, local),
                                                MaxDateFields) } ]
    /\ ret = NoRet

\* run_pipeline, step 1: the collector parses the entry
ParseEntry ==
    /\ call.op = "collect_and_score"
    /\ ret = NoRet
    /\ ret' = [ op |-> "parsed",
                article |-> parse_entry_dated(call.entry, S_Blog, clock,
                                              call.local_utcoffset) ]
    /\ UNCHANGED << pipeline, call >>

\* run_pipeline, step 3, within the same tick: the filter scores the article
ScoreCollected ==
    /\ ret.op = "parsed"
    /\ ret' = [ op |-> "scored",
                article |-> ret.article,
                recency_boost |-> get_recency_boost(ret.article,
                                     call.recency_weight, clock,
                                     call.local_utcoffset) ]
    /\ UNCHANGED << pipeline, call >>

NextCollectScore ==
    \/ ParseEntry
    \/ ScoreCollected

SpecCollectScore == InitCollectScore /\ [][NextCollectScore]_vars

\* the entry has no date field that parses
Undated ==
    \A i \in 1..Len(call.entry.dates) : call.entry.dates[i] = Garbage

\* C18: an article collected from a feed entry with no parseable publish
\* date has recency multiplier 1.0 when the run that collected it scores it
C18_UndatedNotBoosted ==
    (ret.op = "scored" /\ Undated) => ret.recency_boost = 4

\* C21: the relevance_score stored on every article filter_and_rank scores
\* is at least 0, whatever the configuration
C21_ScoreNonNegative ==
    Filtered =>
        \A i \in 1..Len(ret.recent_articles) :
            ret.recent_articles[i].relevance_score >= 0

\* C28: an article whose fingerprint is not in the loaded seen-set and whose
\* title is similar to no title accepted earlier in the batch is accepted;
\* titles of dropped articles and of earlier runs cause no drop
C28_OnlyAcceptedTitlesCount ==
    Deduped =>
        \A i \in 1..Len(articles) :
            (articles[i].hash \notin seen_hashes /\ ~IsNearDuplicate(i))
               => verdict[i] = "accepted"

\* an article accepted although its title is similar to that of an article
\* dropped before it for a cached fingerprint
C28_Witness ==
    /\ Deduped
    /\ \E i, j \in 1..Len(articles) :
          /\ i < j
          /\ verdict[i] = "exact"
          /\ articles[i].hash \in seen_hashes
          /\ NormTitle(i) # NormTitle(j)
          /\ TitlesSimilar(NormTitle(i), NormTitle(j))
          /\ verdict[j] = "accepted"

\* the fingerprints the previous run accepted
PrevAccepted == { prev.accepted[k].hash : k \in 1..Len(prev.accepted) }

\* this run deduplicates within the lookback window of the previous run's save
NextRunInWindow ==
    /\ Deduped
    /\ prev.done
    /\ prev.now > load.now - Window

\* every article the previous run accepted is dropped for its cached fingerprint
PrevAcceptedDropped ==
    \A i \in 1..Len(articles) :
        articles[i].hash \in PrevAccepted =>
            /\ articles[i].hash \in seen_hashes
            /\ verdict[i] = "exact"

\* cache content _load_cache tolerates: no file, no JSON, or a mapping with
\* a timestamp that does not parse
ToleratedDamage(file) ==
    \/ file.kind \in {"missing", "invalid"}
    \/ /\ file.kind = "dict"
       /\ \E h \in DOMAIN file.data : ~CanParse(file.data[h])

\* C26: whatever tolerated damage the cache file had before a run, if the
\* file is writable the articles that run accepts are dropped as exact
\* duplicates by the next run within the lookback window
C26_PersistsDespiteDamage ==
    (NextRunInWindow /\ prev.writable /\ ToleratedDamage(prev.before))
        => PrevAcceptedDropped

\* C27: the fingerprints deduplicate accepts are persisted before the rest of
\* the run, so with a writable cache file every later run within the
\* lookback window drops them as exact duplicates, whatever became of the
\* run's digest
C27_CommittedBeforeDelivery ==
    (NextRunInWindow /\ prev.writable) => PrevAcceptedDropped


\* ---------------------------------------------------------------------
\* Sending: EmailSender.send_email and its retry loop
\* ---------------------------------------------------------------------

\* EmailSender.__init__: the fields send_email reads
EmailSender(is_sendgrid, use_tls) ==
    [ is_sendgrid |-> is_sendgrid, use_tls |-> use_tls,
      max_retries |-> 3, retry_delay |-> 5 ]

\* what leaves the `with smtplib.SMTP(...)` block of one attempt: nothing
\* ("sent") or an exception of one of the three classes the loop catches
SmtpOutcomes == {"sent", "SMTPAuthenticationError", "SMTPException", "Exception"}

\* send_email before the first iteration of its loop
send_email_start ==
    [ op |-> "send_email", attempt |-> 0, status |-> "running",
      result |-> FALSE, tried |-> <<>>, slept |-> 0,
      username |-> "none", starttls |-> FALSE ]

\* variant: an authentication error is retried like any other failure
send_email_retry_auth(self, st, outcome) ==
    IF st.attempt >= self.max_retries
    THEN [st EXCEPT !.status = "returned", !.result = FALSE]
    ELSE LET attempt == st.attempt + 1
             made == [st EXCEPT !.attempt = attempt,
                                !.tried = Append(st.tried, outcome),
                                !.starttls = self.use_tls,
                                !.username = IF self.is_sendgrid
                                             THEN "apikey" ELSE "sender_email"]
         IN  IF outcome = "sent"
             THEN [made EXCEPT !.status = "returned", !.result = TRUE]
             ELSE IF attempt < self.max_retries
                  THEN [made EXCEPT !.slept = st.slept + self.retry_delay]
                  ELSE [made EXCEPT !.status = "returned", !.result = FALSE]

\* one iteration of the loop of send_email (or the return after the loop):
\* connect, starttls, login, send_message, then the matching except clause
send_email(self, st, outcome) ==
    IF st.attempt >= self.max_retries
    THEN [st EXCEPT !.status = "returned", !.result = FALSE]
    ELSE LET attempt == st.attempt + 1
             made == [st EXCEPT !.attempt = attempt,
                                !.tried = Append(st.tried, outcome),
                                !.starttls = self.use_tls,
                                !.username = IF self.is_sendgrid
                                             THEN "apikey" ELSE "sender_email"]
         IN  IF outcome = "sent"
             THEN [made EXCEPT !.status = "returned", !.result = TRUE]
             ELSE IF outcome = "SMTPAuthenticationError"
             THEN [made EXCEPT !.status = "returned", !.result = FALSE]
             ELSE IF attempt < self.max_retries
                  THEN [made EXCEPT !.slept = st.slept + self.retry_delay]
                  ELSE [made EXCEPT !.status = "returned", !.result = FALSE]

\* a call of send_email on a sender of either kind; the server's behaviour
\* at each attempt is chosen when the attempt is made
InitSend ==
    /\ AtRest
    /\ \E is_sendgrid, use_tls \in BOOLEAN :
          call = [op |-> "send_email", self |-> EmailSender(is_sendgrid, use_tls)]
    /\ ret = send_email_start

SendAttempt ==
    /\ call.op = "send_email"
    /\ ret.status = "running"
    /\ \E outcome \in SmtpOutcomes :
          ret' = send_email(call.self, ret, outcome)
    /\ UNCHANGED << pipeline, call >>

NextSend == SendAttempt

\* every attempt ends: the loop body is run until send_email returns
SpecSend == InitSend /\ [][NextSend]_vars /\ WF_vars(SendAttempt)

Sending == ret.op = "send_email"

Returned == Sending /\ ret.status = "returned"

\* the attempts made so far, but the last, failed with a retryable error
EarlierRetryable ==
    \A k \in 1..(Len(ret.tried) - 1) :
        ret.tried[k] \in {"SMTPException", "Exception"}

\* the rule of the retry loop, as a predicate of the call's state
SendRule ==
    Sending =>
        /\ ret.status \in {"running", "returned"}
        /\ Len(ret.tried) <= 3
        /\ ret.attempt = Len(ret.tried)
        /\ EarlierRetryable
        /\ ret.status = "running" =>
              /\ Len(ret.tried) < 3
              /\ \A k \in 1..Len(ret.tried) :
                    ret.tried[k] \in {"SMTPException", "Exception"}
        /\ ret.status = "returned" =>
              /\ Len(ret.tried) >= 1
              /\ LET last == ret.tried[Len(ret.tried)]
                 IN  /\ ret.result = (last = "sent")
                     /\ last \in {"SMTPException", "Exception"}
                           => Len(ret.tried) = 3

\* C29: send_email makes at most 3 attempts and always returns: True at the
\* first attempt that succeeds, False at once on an authentication error,
\* False when the 3rd attempt fails, and it retries after any other failure
\* while fewer than 3 attempts were made; no exception leaves it
C29_BoundedRetry == []SendRule /\ <>Returned

\* the third attempt succeeded after two retried failures
C29_Witness ==
    /\ Returned
    /\ ret.result = TRUE
    /\ Len(ret.tried) = 3
    /\ ret.tried[1] = "SMTPException"
    /\ ret.tried[2] = "Exception"


\* ---------------------------------------------------------------------
\* Collection from several feeds: collect_all, collect_from_source,
\* _parse_entry and the URL validator
\* ---------------------------------------------------------------------

MaxEntries == 2      \* entries one feed serves

\* str.startswith
startswith(s, prefix) ==
    /\ Len(s) >= Len(prefix)
    /\ SubSeq(s, 1, Len(prefix)) = prefix

\* the prefixes 'http://' and 'https://', each written as one character
Http == <<"h">>
Https == <<"s">>
U3 == <<"s", "3">>
U_ftp == <<"f", "1">>

\* Article.validate_url: TRUE when the validator returns, FALSE when it
\* raises ValueError
validate_url(v) == startswith(v, Http) \/ startswith(v, Https)

\* what a call gives when it yields no article
Rejected(how) == [rejected |-> how]

\* Article(title=..., url=..., source=..., category=...): a ValidationError
\* when the URL validator raises
ArticleOf(title, url, source, category) ==
    IF ~validate_url(url) THEN Rejected("ValidationError")
    ELSE [ title |-> title, url |-> url, source |-> source,
           category |-> category, hash |-> generate_hash(title, url) ]

\* RSSCollector._parse_entry: the article, None, or an AttributeError when
\* the entry's title is no string and .strip() fails
parse_entry_of(entry, source_name, category) ==
    IF entry.title = None THEN Rejected("AttributeError")
    ELSE LET title == strip(entry.title)
             url == strip(entry.link)
         IN  IF title = <<>> THEN Rejected("None")
             ELSE IF url = <<>> THEN Rejected("None")
             ELSE LET article == ArticleOf(title, url, source_name, category)
                  IN  IF article = Rejected("ValidationError")
                      THEN Rejected("None")
                      ELSE article

\* feed.entries[:max_articles_per_source]
first_entries(entries, n) ==
    SubSeq(entries, 1, IF n < Len(entries) THEN n ELSE Len(entries))

\* the loop of collect_from_source over the entries: an entry that raises
\* or yields None is skipped
RECURSIVE process_entries(_, _, _)
process_entries(entries, source_name, category) ==
    IF entries = <<>> THEN <<>>
    ELSE LET article == parse_entry_of(Head(entries), source_name, category)
         IN  IF article \in {Rejected("AttributeError"), Rejected("None")}
             THEN process_entries(Tail(entries), source_name, category)
             ELSE <<article>>
                  \o process_entries(Tail(entries), source_name, category)

\* variant: a feed with an entry that yields no article gives nothing
collect_from_source_all_or_nothing(self, feed_config, served) ==
    IF served.raises THEN <<>>
    ELSE IF served.entries = <<>> THEN <<>>
    ELSE LET entries == first_entries(served.entries,
                                      self.max_articles_per_source)
             got == process_entries(entries, feed_config.name,
                                    feed_config.category)
         IN  IF Len(got) < Len(entries) THEN <<>> ELSE got

\* RSSCollector.collect_from_source: served is what feedparser.parse does
\* with the feed, it raises or it returns entries
collect_from_source(self, feed_config, served) ==
    IF served.raises THEN <<>>
    ELSE IF served.entries = <<>> THEN <<>>
    ELSE process_entries(first_entries(served.entries,
                                       self.max_articles_per_source),
                         feed_config.name, feed_config.category)

\* RSSCollector.collect_all over settings.rss_feeds
RECURSIVE collect_all_feeds(_, _, _)
collect_all_feeds(self, feeds, served) ==
    IF feeds = <<>> THEN <<>>
    ELSE collect_from_source(self, Head(feeds), Head(served))
         \o collect_all_feeds(self, Tail(feeds), Tail(served))

\* settings.rss_feeds: two enabled feeds
rss_feeds ==
    << [name |-> S_MIT, category |-> "ai"],
       [name |-> S_arXiv, category |-> "research"] >>

\* RSSCollector.__init__
RSSCollector(max_articles_per_source) ==
    [max_articles_per_source |-> max_articles_per_source]

\* the entries a feed can serve: two valid ones, a blank title, no link,
\* a link of another scheme, and a title that is no string
FeedEntries ==
    { [title |-> T_Ab, link |-> U1],
      [title |-> T_bc, link |-> U3],
      [title |-> <<" ">>, link |-> U1],
      [title |-> T_abc, link |-> <<>>],
      [title |-> T_abc, link |-> U_ftp],
      [title |-> None, link |-> U2] }

Served ==
    {[raises |-> TRUE, entries |-> <<>>]}
    \cup { [raises |-> FALSE, entries |-> es] :
              es \in SeqsUpTo(FeedEntries, MaxEntries) }

InitCollect ==
    /\ AtRest
    /\ \E served \in [1..Len(rss_feeds) -> Served], cap \in 1..MaxEntries :
          call = [op |-> "collect_all", self |-> RSSCollector(cap),
                  feeds |-> rss_feeds, served |-> served]
    /\ ret = NoRet

CollectAll ==
    /\ call.op = "collect_all"
    /\ ret = NoRet
    /\ ret' = [op |-> "collect_all", exception |-> "none",
               articles |-> collect_all_feeds(call.self, call.feeds, call.served)]
    /\ UNCHANGED << pipeline, call >>

NextCollect == CollectAll

SpecCollect == InitCollect /\ [][NextCollect]_vars

Collected == ret.op = "collect_all"

\* an entry with a title, a link and an http(s) URL
ValidEntry(entry) ==
    /\ entry.title # None
    /\ strip(entry.title) # <<>>
    /\ strip(entry.link) # <<>>
    /\ \/ startswith(strip(entry.link), Http)
       \/ startswith(strip(entry.link), Https)

\* the valid entries of feed f within the per-source cap, in feed order
ValidServed(f) ==
    IF call.served[f].raises THEN <<>>
    ELSE SelectSeq(first_entries(call.served[f].entries,
                                 call.self.max_articles_per_source),
                   ValidEntry)

\* C25: an entry with a missing title, a missing URL or a URL of another
\* scheme is rejected alone: collect_all raises nothing and returns, feed by
\* feed, one article for every valid entry within the per-source cap
C25_RejectionsAreLocal ==
    Collected =>
        /\ ret.exception = "none"
        /\ LET expected == ValidServed(1) \o ValidServed(2)
           IN  /\ Len(ret.articles) = Len(expected)
               /\ \A i \in 1..Len(expected) :
                     /\ ret.articles[i].title = strip(expected[i].title)
                     /\ ret.articles[i].url = strip(expected[i].link)
               /\ \A i \in 1..Len(ret.articles) :
                     ret.articles[i].source =
                        IF i <= Len(ValidServed(1)) THEN S_MIT ELSE S_arXiv

\* a feed serves a rejected entry before a valid one, the other feed fails,
\* and the valid entry is collected
C25_Witness ==
    /\ Collected
    /\ call.served[1].raises
    /\ ~call.served[2].raises
    /\ Len(call.served[2].entries) = 2
    /\ call.self.max_articles_per_source = 2
    /\ ~ValidEntry(call.served[2].entries[1])
    /\ ValidEntry(call.served[2].entries[2])
    /\ Len(ret.articles) = 1
    /\ ret.articles[1].title = strip(call.served[2].entries[2].title)


\* ---------------------------------------------------------------------
\* Grouping and the plain-text digest: ArticleFilter.group_by_category
\* and HTMLBuilder.build_plain_text
\* ---------------------------------------------------------------------

MaxRanked == 6       \* articles in a ranked list

\* articles[:5]
TopN == 5

\* the categories of the feeds
Categories == {"ai", "robotics", "research"}

\* x in list, by equality of all fields
InList(x, list) == \E k \in 1..Len(list) : list[k] = x

\* [a for a in bucket if a not in top]
not_in(bucket, top) ==
    LET keep(a) == ~InList(a, top) IN SelectSeq(bucket, keep)

\* the articles of one category, in list order
of_category(arts, category) ==
    LET is(a) == a.category = category IN SelectSeq(arts, is)

\* variant: the category buckets hold only what follows the top stories
group_by_category_rest(arts) ==
    LET top == SubSeq(arts, 1,
                      IF Len(arts) < TopN THEN Len(arts) ELSE TopN)
        rest == SubSeq(arts, Len(top) + 1, Len(arts))
    IN  [ top |-> top \o of_category(rest, "top"),
          ai |-> of_category(rest, "ai"),
          robotics |-> of_category(rest, "robotics"),
          research |-> of_category(rest, "research") ]

\* ArticleFilter.group_by_category: the first five, then every article is
\* appended to the list its category names
group_by_category(arts) ==
    LET top == SubSeq(arts, 1,
                      IF Len(arts) < TopN THEN Len(arts) ELSE TopN)
    IN  [ top |-> top \o of_category(arts, "top"),
          ai |-> of_category(arts, "ai"),
          robotics |-> of_category(arts, "robotics"),
          research |-> of_category(arts, "research") ]

\* HTMLBuilder.build_plain_text: the count of the header line and the
\* articles of the four sections
build_plain_text(arts) ==
    LET grouped_articles == group_by_category(arts)
    IN  [ header_count |-> Len(arts),
          top |-> grouped_articles.top,
          ai_articles |-> not_in(grouped_articles.ai, grouped_articles.top),
          robotics_articles |->
              not_in(grouped_articles.robotics, grouped_articles.top),
          research_articles |->
              not_in(grouped_articles.research, grouped_articles.top) ]

\* a ranked article: the fields of Article that differ between the
\* articles of a list (all carry the same relevance score, so every order
\* of them is a ranking)
RankedArticle(title, url, category) ==
    [ title |-> title, url |-> url, category |-> category,
      hash |-> generate_hash(title, url), relevance_score |-> 16 ]

Ranked ==
    { RankedArticle(T_ab, U1, "ai"), RankedArticle(T_bc, U1, "ai"),
      RankedArticle(T_ab, U2, "robotics"), RankedArticle(T_bc, U2, "robotics"),
      RankedArticle(T_abc, U1, "research"), RankedArticle(T_abc, U2, "research") }

InitDigest ==
    /\ AtRest
    /\ \E list \in SeqsUpTo(Ranked, MaxRanked) :
          call = [op |-> "digest", articles |-> list]
    /\ ret = NoRet

GroupByCategory ==
    /\ call.op = "digest"
    /\ ret = NoRet
    /\ ret' = [op |-> "group_by_category",
               grouped |-> group_by_category(call.articles)]
    /\ UNCHANGED << pipeline, call >>

\* run_pipeline composes the text and passes len(filtered_articles) on to
\* send_digest for the subject line
BuildPlainText ==
    /\ call.op = "digest"
    /\ ret = NoRet
    /\ ret' = [op |-> "build_plain_text",
               text |-> build_plain_text(call.articles),
               article_count |-> Len(call.articles)]
    /\ UNCHANGED << pipeline, call >>

NextDigest == GroupByCategory \/ BuildPlainText

SpecDigest == InitDigest /\ [][NextDigest]_vars

Grouped == ret.op = "group_by_category"

Built == ret.op = "build_plain_text"

\* the positions of the list that hold an article of the category
PositionsOf(category) ==
    { i \in 1..Len(call.articles) : call.articles[i].category = category }

\* the k-th smallest position of a set of positions
KthOf(positions, k) ==
    CHOOSE i \in positions : Cardinality({ j \in positions : j < i }) = k - 1

\* the bucket holds the articles of the category, in list order
BucketIs(bucket, category) ==
    /\ Len(bucket) = Cardinality(PositionsOf(category))
    /\ \A k \in 1..Len(bucket) :
          bucket[k] = call.articles[KthOf(PositionsOf(category), k)]

\* C24: the top group is the first 5 articles of the ranked list (all of
\* them when there are fewer), and the ai, robotics and research buckets
\* each hold the articles of that category in the order of the list
C24_Grouping ==
    Grouped =>
        /\ Len(ret.grouped.top) =
              IF Len(call.articles) < 5 THEN Len(call.articles) ELSE 5
        /\ \A k \in 1..Len(ret.grouped.top) :
              ret.grouped.top[k] = call.articles[k]
        /\ BucketIs(ret.grouped.ai, "ai")
        /\ BucketIs(ret.grouped.robotics, "robotics")
        /\ BucketIs(ret.grouped.research, "research")

\* six different articles: the sixth is left out of the top group, and a
\* bucket holds an article of the top group together with the sixth
C24_Witness ==
    /\ Grouped
    /\ Len(call.articles) = 6
    /\ \A i, j \in 1..6 : i # j => call.articles[i] # call.articles[j]
    /\ Len(ret.grouped.top) = 5
    /\ call.articles[1].category = "ai"
    /\ call.articles[6].category = "ai"
    /\ ret.grouped.ai = << call.articles[1], call.articles[6] >>

\* the articles the digest shows, section after section
Shown ==
    ret.text.top \o ret.text.ai_articles \o ret.text.robotics_articles
        \o ret.text.research_articles

\* how often the article occurs in the list
Occurrences(a, list) == Cardinality({ k \in 1..Len(list) : list[k] = a })

\* C30: every article of the ranked list is shown exactly once in the
\* plain-text digest, among the top stories when it is one of the first 5
\* and in the section of its category otherwise, so the digest shows as
\* many articles as its header and the subject line announce
C30_DigestCoverage ==
    Built =>
        /\ Len(Shown) = ret.text.header_count
        /\ Len(Shown) = ret.article_count
        /\ \A i \in 1..Len(call.articles) :
              Occurrences(call.articles[i], Shown)
                 = Occurrences(call.articles[i], call.articles)


\* ---------------------------------------------------------------------
\* One whole run: run_pipeline from collection to delivery
\* ---------------------------------------------------------------------

\* collect_all over one feed whose entries carry date fields; every
\* article gets the category of the feed
RECURSIVE collect_dated(_, _, _, _)
collect_dated(entries, feed_config, now_utc, local_utcoffset) ==
    IF entries = <<>> THEN <<>>
    ELSE LET a == parse_entry_dated(Head(entries), feed_config.name,
                                    now_utc, local_utcoffset)
         IN  (IF a = NoArticle THEN <<>>
              ELSE << [category |-> feed_config.category] @@ a >>)
             \o collect_dated(Tail(entries), feed_config,
                              now_utc, local_utcoffset)

\* AISummarizer.__init__: enabled by the settings and only with an API key
AISummarizer(ai_summaries_enabled, api_key) ==
    [enabled |-> ai_summaries_enabled /\ api_key]

\* what _call_openai gives for one article: None after an error, an empty
\* text, or a summary
Replies == {None, <<>>, X_newAI}

\* if summary: / if enhanced_summary:
truthy(text) == text # None /\ text # <<>>

\* AISummarizer.summarize_article, reply being what _call_openai returns
summarize_article(self, article, reply) ==
    IF ~self.enabled THEN article.description
    ELSE IF truthy(reply) THEN reply
    ELSE article.description

\* variant: an article that gets no summary is left out
batch_summarize_drop_failed(self, arts, replies) ==
    IF ~self.enabled THEN arts
    ELSE LET enhanced ==
               [ i \in 1..Len(arts) |->
                   [ arts[i] EXCEPT !.description =
                        summarize_article(self, arts[i], replies[i]) ] ]
         IN  SelectSeq(enhanced, LAMBDA a : truthy(a.description))

\* AISummarizer.batch_summarize: the description of an article is replaced
\* when summarize_article gives a non-empty text
batch_summarize(self, arts, replies) ==
    IF ~self.enabled THEN arts
    ELSE [ i \in 1..Len(arts) |->
             LET enhanced_summary == summarize_article(self, arts[i], replies[i])
             IN  IF truthy(enhanced_summary)
                 THEN [ arts[i] EXCEPT !.description = enhanced_summary ]
                 ELSE arts[i] ]

\* HTMLBuilder.build_html: the context the template is rendered with
build_html(arts) ==
    [ article_count |-> Len(arts), grouped_articles |-> group_by_category(arts) ]

\* variant: an empty intermediate result does not end the run
run_after_no_return(produced, next) == next

\* `if not articles: return` and its like: where run_pipeline goes after a
\* stage that produced a list
run_after(produced, next) ==
    IF produced = <<>> THEN "returned" ELSE next

\* the feed run_pipeline collects from
TheFeed == [name |-> S_Blog, category |-> "ai"]

\* the entries the feed can serve: two fresh ones, one too old for the
\* filter, one without a title
DatedEntries ==
    { [title |-> T_Ab, link |-> U1, dates |-> <<NaiveTime(StartClock)>>],
      [title |-> T_bc, link |-> U2, dates |-> <<NaiveTime(StartClock)>>],
      [title |-> T_abc, link |-> U2,
       dates |-> <<NaiveTime(StartClock - 2 * TicksPerDay - 1)>>],
      [title |-> <<" ">>, link |-> U1, dates |-> <<>>] }

\* the settings and the surroundings of one run
RunCalls ==
    [ op : {"run_pipeline"},
      entries : SeqsUpTo(DatedEntries, MaxFeed),
      file : { FileMissing,
               FileDict(generate_hash(T_bc, U2) :> isoformat(StartClock)) },
      config : [ enabled : BOOLEAN, similarity_threshold : {85},
                 lookback_days : {1} ],
      settings : [ include_keywords : {<<T_bc>>},
                   exclude_keywords : {<<>>, <<T_Ab>>},
                   max_articles : {0, 2},
                   min_relevance_score : {0, 16},
                   recency_weight : {2},
                   max_age_days : {1} ],
      ai_summaries_enabled : BOOLEAN ]

\* run_pipeline before its first step
run_start(file) ==
    [ op |-> "run_pipeline", pc |-> "start", stages |-> <<>>,
      articles |-> <<>>, unique_articles |-> <<>>, ranked |-> <<>>,
      filtered_articles |-> <<>>, file |-> file,
      composed |-> <<>>, sent |-> <<>>, exception |-> "none" ]

InitPipeline ==
    /\ AtRest
    /\ call \in RunCalls
    /\ ret = run_start(call.file)

\* step 1: collect_all
RunCollect ==
    /\ ret.op = "run_pipeline" /\ ret.pc = "start"
    /\ LET collected == collect_dated(call.entries, TheFeed, clock, 0)
       IN  ret' = [ ret EXCEPT !.stages = Append(@, "collect"),
                               !.articles = collected,
                               !.pc = run_after(collected, "collected") ]
    /\ UNCHANGED << pipeline, call >>

\* step 2: Deduplicator() and deduplicate
RunDeduplicate ==
    /\ ret.op = "run_pipeline" /\ ret.pc = "collected"
    /\ \E writable \in BOOLEAN :
          LET loaded == load_cache(ret.file, clock, call.config.lookback_days)
              r == deduplicate(ret.articles, loaded.seen_hashes, call.config,
                               ret.file, clock, clock, writable)
          IN  ret' = [ ret EXCEPT !.stages = Append(@, "deduplicate"),
                                  !.unique_articles = r.unique_articles,
                                  !.file = r.file,
                                  !.pc = run_after(r.unique_articles, "deduped") ]
    /\ UNCHANGED << pipeline, call >>

\* step 3: ArticleFilter() and filter_and_rank; an exception is logged and
\* raised again by run_pipeline
RunFilter ==
    /\ ret.op = "run_pipeline" /\ ret.pc = "deduped"
    /\ LET r == filter_and_rank(ArticleFilter(call.settings),
                                ret.unique_articles, clock, 0)
       IN  ret' = [ ret EXCEPT !.stages = Append(@, "filter"),
                               !.ranked = r.result,
                               !.filtered_articles = r.result,
                               !.exception = r.exc,
                               !.pc = IF r.exc # "none" THEN "raised"
                                      ELSE run_after(r.result, "filtered") ]
    /\ UNCHANGED << pipeline, call >>

\* step 4: AISummarizer() and batch_summarize
RunEnrich ==
    /\ ret.op = "run_pipeline" /\ ret.pc = "filtered"
    /\ \E api_key \in BOOLEAN,
          replies \in [1..Len(ret.filtered_articles) -> Replies] :
          ret' = [ ret EXCEPT !.stages = Append(@, "enrich"),
                              !.filtered_articles =
                                  batch_summarize(
                                      AISummarizer(call.ai_summaries_enabled,
                                                   api_key),
                                      ret.filtered_articles, replies),
                              !.pc = "enriched" ]
    /\ UNCHANGED << pipeline, call >>

\* step 5: HTMLBuilder(), build_html and build_plain_text
RunCompose ==
    /\ ret.op = "run_pipeline" /\ ret.pc = "enriched"
    /\ ret' = [ ret EXCEPT !.stages = Append(@, "compose"),
                           !.composed =
                               << [ html |-> build_html(ret.filtered_articles),
                                    plain |-> build_plain_text(
                                                 ret.filtered_articles) ] >>,
                           !.pc = "composed" ]
    /\ UNCHANGED << pipeline, call >>

\* step 6: send_digest, which reports success or failure
RunSend ==
    /\ ret.op = "run_pipeline" /\ ret.pc = "composed"
    /\ \E success \in BOOLEAN :
          ret' = [ ret EXCEPT !.stages = Append(@, "send"),
                              !.sent =
                                  << [ article_count |->
                                           Len(ret.filtered_articles),
                                       success |-> success ] >>,
                              !.pc = "returned" ]
    /\ UNCHANGED << pipeline, call >>

NextPipeline ==
    \/ RunCollect
    \/ RunDeduplicate
    \/ RunFilter
    \/ RunEnrich
    \/ RunCompose
    \/ RunSend

SpecPipeline == InitPipeline /\ [][NextPipeline]_vars

Running == ret.op = "run_pipeline"

StageOrder == <<"collect", "deduplicate", "filter", "enrich", "compose", "send">>

\* the stage ran
Ran(stage) == \E k \in 1..Len(ret.stages) : ret.stages[k] = stage

\* the run returned after exactly these stages, with no email
ReturnedAfter(n) ==
    /\ ret.pc = "returned"
    /\ ret.stages = SubSeq(StageOrder, 1, n)
    /\ ret.composed = <<>>
    /\ ret.sent = <<>>

\* C22: run_pipeline runs collect, deduplicate, filter, enrich, compose and
\* send in this order; when collection, deduplication or filtering gives an
\* empty list it returns without running a later stage, and no email is
\* composed or sent
C22_OrderAndShortCircuit ==
    Running =>
        /\ ret.stages = SubSeq(StageOrder, 1, Len(ret.stages))
        /\ (Ran("collect") /\ ret.articles = <<>>) => ReturnedAfter(1)
        /\ (Ran("deduplicate") /\ ret.unique_articles = <<>>)
              => ReturnedAfter(2)
        /\ (Ran("filter") /\ ret.exception = "none" /\ ret.ranked = <<>>)
              => ReturnedAfter(3)
        /\ ret.composed # <<>> => Ran("compose")
        /\ ret.sent # <<>> => Ran("send")

\* the filter leaves nothing of the unique articles and the run returns
C22_Witness ==
    /\ Running
    /\ ret.unique_articles # <<>>
    /\ ret.exception = "none"
    /\ ret.ranked = <<>>
    /\ ReturnedAfter(3)

\* the articles agree in every field but the description
SameButDescription(a, b) ==
    /\ a.title = b.title
    /\ a.url = b.url
    /\ a.hash = b.hash
    /\ a.source = b.source
    /\ a.category = b.category
    /\ a.published_at = b.published_at
    /\ a.relevance_score = b.relevance_score

\* the article was collected with this title, URL and hash
AsCollected(a) ==
    \E k \in 1..Len(ret.articles) :
        /\ ret.articles[k].title = a.title
        /\ ret.articles[k].url = a.url
        /\ ret.articles[k].hash = a.hash

\* C23: batch_summarize returns the same articles in the same order,
\* changed in no field but description; no stage changes the hash an
\* article was constructed with, and only filter_and_rank writes
\* relevance_score
C23_EnrichmentFrame ==
    Running =>
        /\ Ran("enrich") =>
              /\ Len(ret.filtered_articles) = Len(ret.ranked)
              /\ \A i \in 1..Len(ret.ranked) :
                    SameButDescription(ret.filtered_articles[i], ret.ranked[i])
        /\ \A i \in 1..Len(ret.unique_articles) :
              /\ AsCollected(ret.unique_articles[i])
              /\ ret.unique_articles[i].relevance_score = 0
        /\ \A i \in 1..Len(ret.filtered_articles) :
              AsCollected(ret.filtered_articles[i])
        /\ \A i \in 1..Len(ret.articles) :
              /\ ret.articles[i].relevance_score = 0
              /\ ret.articles[i].hash =
                    generate_hash(ret.articles[i].title, ret.articles[i].url)

\* two articles were enriched: one got a summary, the other kept its
\* description
C23_Witness ==
    /\ Running
    /\ Ran("enrich")
    /\ Len(ret.ranked) = 2
    /\ ret.filtered_articles[1].description = X_newAI
    /\ ret.ranked[1].description = None
    /\ ret.filtered_articles[2].description = ret.ranked[2].description
    /\ ret.filtered_articles[1].relevance_score > 0

====
